---- MODULE Spec2Model ----
(***************************************************************************)
(* The Express proxy of CryptoTechAnalyzer: a per-IP sliding-window rate   *)
(* limiter in front of three cache-first read endpoints that fetch from    *)
(* the CoinGecko API, the history endpoint turning the daily price series  *)
(* into synthetic candlesticks.                                            *)
(*                                                                         *)
(* Node runs one callback at a time, so one action is one callback: the    *)
(* middleware chain of a request up to the handler's `await axios.get`,    *)
(* and the continuation of a handler after that await (resolved or         *)
(* rejected).  Time is Date.now() in milliseconds.                         *)
(***************************************************************************)
EXTENDS Integers, Sequences, FiniteSets, TLC

VARIABLES
    now,            \* Date.now()
    requestCounts,  \* the Map ip -> array of timestamps
    cache,          \* the NodeCache: key -> [v, t] (value, time of the set)
    inflight,       \* handlers suspended at `await axios.get(...)`
    last,           \* the response sent most recently (n = 0: none yet)
    arrived,        \* requests received so far
    answered,       \* responses sent so far (res.json calls)
    log,            \* per ip, the rate limiter's calls so far: [t, allowed]
    storedBy        \* per cache key, the request whose handler set it last

vars ==
    <<now, requestCounts, cache, inflight, last, arrived, answered, log,
      storedBy>>

----------------------------------------------------------------------------
(* Bounds of the model *)

MaxReqs == 3        \* requests received in Spec
MaxBurst == 32      \* requests received in SpecRate
MaxOther == 1       \* of which from the second client
MaxSeries == 3      \* points of an upstream price series in SpecTransform

----------------------------------------------------------------------------
(* Program constants *)

windowMs == 60 * 1000
max == 30
message == "Too many requests, please try again later."
stdTTL == 300

----------------------------------------------------------------------------
(* JSON values.  One record shape for all of them, so that any two can be  *)
(* compared: tag, a number n, a string s, and the items of an array of     *)
(* candlesticks.  An array or object whose content the proxy never looks   *)
(* at is identified by n.                                                  *)

Undefined == [tag |-> "undefined", n |-> 0, s |-> "", items |-> <<>>]
Null == [tag |-> "null", n |-> 0, s |-> "", items |-> <<>>]
Num(k) == [tag |-> "number", n |-> k, s |-> "", items |-> <<>>]
Str(t) == [tag |-> "string", n |-> 0, s |-> t, items |-> <<>>]
Arr(k) == [tag |-> "array", n |-> k, s |-> "", items |-> <<>>]
Obj(k) == [tag |-> "object", n |-> k, s |-> "", items |-> <<>>]
ArrOf(c) == [tag |-> "array", n |-> Len(c), s |-> "", items |-> c]

\* JavaScript's ToBoolean, as `if (cachedData)` and `a || b` apply it.
ToBoolean(v) ==
    CASE v.tag = "undefined" -> FALSE
      [] v.tag = "null" -> FALSE
      [] v.tag = "number" -> v.n # 0
      [] v.tag = "string" -> v.s # ""
      [] OTHER -> TRUE

----------------------------------------------------------------------------
(* The TTL cache: new NodeCache({ stdTTL: 300 }), with get and set as      *)
(* sections 3 and 4.1 of the specification describe them.                  *)

cacheLive(key) ==
    /\ key \in DOMAIN cache
    /\ now - cache[key].t < stdTTL * 1000

cacheGet(key) == IF cacheLive(key) THEN cache[key].v ELSE Undefined

cacheSet(key, v) ==
    [k \in DOMAIN cache \cup {key} |->
        IF k = key THEN [v |-> v, t |-> now] ELSE cache[k]]

----------------------------------------------------------------------------
(* The rate limiter *)

\* Faulty variant: a timestamp exactly one window old is kept.
InWindowLoose(time, windowStart) == time >= windowStart

\* time > windowStart, the filter of the stored timestamps
InWindow(time, windowStart) == time > windowStart

requestsOf(ip) ==
    IF ip \in DOMAIN requestCounts THEN requestCounts[ip] ELSE <<>>

validRequests(ip) ==
    LET windowStart == now - windowMs
        keep(time) == InWindow(time, windowStart)
    IN SelectSeq(requestsOf(ip), keep)

\* Faulty variant: one request too many is let through.
OverLimitOffByOne(valid) == Len(valid) > max

\* validRequests.length >= rateLimit.max
OverLimit(valid) == Len(valid) >= max

\* Faulty variant: a denied request is recorded too.
RecordsDenied(ip, valid, denied) == Append(valid, now)

\* The array stored for ip: now is pushed unless the request was denied.
Recorded(ip, valid, denied) == IF denied THEN valid ELSE Append(valid, now)

\* requestCounts after rateLimiter(req, res, next) for req.ip = ip
rateLimiter(ip) ==
    LET valid == validRequests(ip)
    IN [c \in DOMAIN requestCounts \cup {ip} |->
          IF c = ip THEN Recorded(ip, valid, OverLimit(valid))
          ELSE requestCounts[c]]

----------------------------------------------------------------------------
(* Requests and upstream results *)

\* A request: the route, the :id path parameter ("" on the list route) and
\* the days query parameter, <<>> when the query has none.
Req(route, id, query) == [route |-> route, id |-> id, query |-> query]

\* const { days = '30' } = req.query
daysOf(query) == IF query = <<>> THEN "30" ELSE query[1]

cacheKey(rq) ==
    CASE rq.route = "list" -> "cryptocurrencies"
      [] rq.route = "detail" -> "crypto_" \o rq.id
      [] rq.route = "history" -> "history_" \o rq.id \o "_" \o daysOf(rq.query)

\* response.data of a resolved axios.get: a JSON value on the list and detail
\* routes, {prices, total_volumes} (arrays of <<timestamp, number>>) on the
\* history route.
UData(data, prices, volumes) ==
    [data |-> data, prices |-> prices, total_volumes |-> volumes]

NoData == UData(Undefined, <<>>, <<>>)

\* The error of a rejected axios.get (error.response present or not), or the
\* TypeError thrown inside the try block.
UError(hasResponse, status, data, msg) ==
    [hasResponse |-> hasResponse, status |-> status, data |-> data,
     message |-> msg]

NoError == UError(FALSE, 0, Undefined, "")

TypeError ==
    UError(FALSE, 0, Undefined,
           "Cannot read properties of undefined (reading '1')")

errorText(route) ==
    CASE route = "list" -> "Failed to fetch cryptocurrency data"
      [] route = "detail" -> "Failed to fetch cryptocurrency details"
      [] route = "history" -> "Failed to fetch historical price data"

\* Faulty variant: the upstream status is not passed on.
errorStatusAlways500(err) == 500

\* error.response?.status || 500
errorStatus(err) ==
    IF err.hasResponse /\ err.status # 0 THEN err.status ELSE 500

\* error.response?.data || error.message
errorDetails(err) ==
    IF err.hasResponse /\ ToBoolean(err.data) THEN err.data
    ELSE Str(err.message)

----------------------------------------------------------------------------
(* The candlestick transform of the history route *)

DayMs == 24 * 60 * 60 * 1000

\* new Date(ms).toISOString().split('T')[0]: the UTC calendar date of ms,
\* written as the number of the day since 1970-01-01.
ISODate(ms) == ms \div DayMs

MathMax(a, b) == IF a >= b THEN a ELSE b

MathMin(a, b) == IF a <= b THEN a ELSE b

\* Faulty variant: the high is the close.
candleHighIsClose(prices, volumes, i) ==
    [time |-> ISODate(prices[i][1]),
     open |-> prices[i - 1][2],
     high |-> prices[i][2],
     low |-> MathMin(prices[i - 1][2], prices[i][2]),
     close |-> prices[i][2],
     volume |-> volumes[i][2]]

\* The object pushed for the point at (1-based) index i > 1.
candle(prices, volumes, i) ==
    [time |-> ISODate(prices[i][1]),
     open |-> prices[i - 1][2],
     high |-> MathMax(prices[i - 1][2], prices[i][2]),
     low |-> MathMin(prices[i - 1][2], prices[i][2]),
     close |-> prices[i][2],
     volume |-> volumes[i][2]]

\* The for loop from (1-based) index i on, acc being candlestickData so far.
\* volumes[i][1] is read at every index, the first included: a volume series
\* that ends before the price series makes the read throw a TypeError.
RECURSIVE candlestickLoop(_, _, _, _)
candlestickLoop(prices, volumes, i, acc) ==
    IF i > Len(prices) THEN [threw |-> FALSE, data |-> acc]
    ELSE IF i > Len(volumes) THEN [threw |-> TRUE, data |-> acc]
    ELSE candlestickLoop(prices, volumes, i + 1,
            IF i > 1 THEN Append(acc, candle(prices, volumes, i)) ELSE acc)

candlestickData(prices, volumes) == candlestickLoop(prices, volumes, 1, <<>>)

----------------------------------------------------------------------------
(* Responses *)

\* One res.json call: the request it answers (n, ip, rq, key), the status, the
\* body's `error` text ("" in a success body) and the body's payload (the
\* data of a success, the `details` of a failure), and where it was sent
\* from.  fetched, err, hadLive and prev are kept for the properties: what
\* this request's upstream call returned, the error its handler caught,
\* whether the cache held an unexpired entry for the key when the handler
\* looked it up, and cache.get(key) just before the handler's continuation.
Response(n, ip, rq, status, error, body, src, fetched, err, hadLive, prev) ==
    [n |-> n, ip |-> ip, rq |-> rq, key |-> cacheKey(rq), status |-> status,
     error |-> error, body |-> body, src |-> src, fetched |-> fetched,
     err |-> err, hadLive |-> hadLive, prev |-> prev]

NoResponse ==
    [n |-> 0, ip |-> "", rq |-> Req("", "", <<>>), key |-> "", status |-> 0,
     error |-> "", body |-> Undefined, src |-> "", fetched |-> NoData,
     err |-> NoError, hadLive |-> FALSE, prev |-> Undefined]

\* return res.status(429).json({ error: rateLimit.message })
limiterSent(n, ip, rq) ==
    <<Response(n, ip, rq, 429, message, Undefined, "limiter", NoData,
               NoError, cacheLive(cacheKey(rq)), Undefined)>>

\* return res.json(cachedData)
hitSent(n, ip, rq, cachedData) ==
    <<Response(n, ip, rq, 200, "", cachedData, "cache", NoData,
               NoError, cacheLive(cacheKey(rq)), Undefined)>>

\* Faulty variant: the handler answers what the cache holds by now.
okSentFromCache(r, value, fetched) ==
    <<Response(r.n, r.ip, r.rq, 200, "",
               IF cacheLive(r.key) THEN cacheGet(r.key) ELSE value,
               "upstream", fetched, NoError, r.hadLive, cacheGet(r.key))>>

\* res.json(response.data) / res.json(candlestickData)
okSent(r, value, fetched) ==
    <<Response(r.n, r.ip, r.rq, 200, "", value, "upstream", fetched,
               NoError, r.hadLive, cacheGet(r.key))>>

\* Faulty variant: the catch block only logs.
catchSendsNothing(r, err, fetched) == <<>>

\* The catch block: res.status(...).json({ error, details })
catchSent(r, err, fetched) ==
    <<Response(r.n, r.ip, r.rq, errorStatus(err), errorText(r.rq.route),
               errorDetails(err), "catch", fetched, err, r.hadLive,
               cacheGet(r.key))>>

\* The responses a callback sent, in order.
Send(sent) ==
    /\ answered' = answered + Len(sent)
    /\ last' = IF sent = <<>> THEN last ELSE sent[Len(sent)]

----------------------------------------------------------------------------
(* Actions *)

\* A request from ip arrives: rateLimiter, then (on next()) the route handler
\* up to its `await axios.get(...)`.
Request(ip, rq) ==
    LET n == arrived + 1
        denied == OverLimit(validRequests(ip))
        key == cacheKey(rq)
        cachedData == cacheGet(key)
    IN /\ arrived' = n
       /\ requestCounts' = rateLimiter(ip)
       /\ log' = [log EXCEPT ![ip] = Append(@, [t |-> now, allowed |-> ~denied])]
       /\ IF denied
          THEN Send(limiterSent(n, ip, rq)) /\ UNCHANGED inflight
          ELSE IF ToBoolean(cachedData)
          THEN Send(hitSent(n, ip, rq, cachedData)) /\ UNCHANGED inflight
          ELSE /\ inflight' = inflight \cup
                    {[n |-> n, ip |-> ip, rq |-> rq, key |-> key,
                      hadLive |-> cacheLive(key)]}
               /\ UNCHANGED <<last, answered>>
       /\ UNCHANGED <<now, cache, storedBy>>

\* storedBy once handler r has set its key
Stored(r) ==
    [k \in DOMAIN storedBy \cup {r.key} |->
        IF k = r.key THEN r.rq ELSE storedBy[k]]

\* The axios.get of handler r resolves with response.data = resp.
UpstreamOk(r, resp) ==
    LET c == candlestickData(resp.prices, resp.total_volumes)
    IN /\ r \in inflight
       /\ inflight' = inflight \ {r}
       /\ IF r.rq.route = "history"
          THEN IF c.threw
               THEN /\ Send(catchSent(r, TypeError, resp))
                    /\ UNCHANGED <<cache, storedBy>>
               ELSE /\ cache' = cacheSet(r.key, ArrOf(c.data))
                    /\ storedBy' = Stored(r)
                    /\ Send(okSent(r, ArrOf(c.data), resp))
          ELSE /\ cache' = cacheSet(r.key, resp.data)
               /\ storedBy' = Stored(r)
               /\ Send(okSent(r, resp.data, resp))
       /\ UNCHANGED <<now, requestCounts, arrived, log>>

\* The axios.get of handler r rejects with err.
UpstreamFail(r, err) ==
    /\ r \in inflight
    /\ inflight' = inflight \ {r}
    /\ Send(catchSent(r, err, NoData))
    /\ UNCHANGED <<now, requestCounts, cache, arrived, log, storedBy>>

\* Time passes.
Tick(t) ==
    /\ t > now
    /\ now' = t
    /\ UNCHANGED <<requestCounts, cache, inflight, last, arrived, answered, log,
                   storedBy>>

----------------------------------------------------------------------------
(* Inputs *)

Clients == {"c1", "c2"}

Requests == {Req("list", "", <<>>), Req("detail", "a", <<>>), Req("history", "a", <<>>)}

\* Now, and the instant at which what was stored or recorded now is 300 s old.
Instants == {0, stdTTL * 1000}

\* The instants around the end of the window of a request made at time 0.
RateInstants == {0, windowMs - 1, windowMs, windowMs + 1}

\* An upstream market chart: point i of the series is stamped off
\* milliseconds into day i - 1.
SeriesAt(off, prices, volumes) ==
    UData(Undefined,
          [i \in 1..Len(prices) |-> <<(i - 1) * DayMs + off, prices[i]>>],
          [i \in 1..Len(volumes) |-> <<(i - 1) * DayMs + off, volumes[i]>>])

Series(prices, volumes) == SeriesAt(0, prices, volumes)

SeqsUpTo(S, n) == UNION {[1..k -> S] : k \in 0..n}

\* Every chart of up to n points over a few prices and volumes, stamped at
\* the start or in the last millisecond of its days, the volume series as
\* long as the price series or one point short.
ChartsUpTo(n) ==
    UNION {{SeriesAt(off, p, v) :
               off \in {0, DayMs - 1},
               v \in {w \in SeqsUpTo({80, 100, 150}, n) : Len(w) = Len(p)}
                     \cup {w \in SeqsUpTo({80}, n) : Len(w) + 1 = Len(p)}} :
           p \in SeqsUpTo({9, 10, 12}, n)}

\* Requests whose ids and days contain the key's separator.
KeyRequests ==
    {Req("list", "", <<>>)}
    \cup {Req("detail", id, <<>>) : id \in {"a", "a_b"}}
    \cup {Req("history", id, q) :
            id \in {"a", "a_b"}, q \in {<<>>, <<"30">>, <<"c">>, <<"b_c">>}}

\* What the upstream may answer: on the history route the specification's
\* example series and a volume series one point short.
Results(route) ==
    CASE route = "list" -> {UData(Arr(1), <<>>, <<>>), UData(Null, <<>>, <<>>)}
      [] route = "detail" -> {UData(Obj(1), <<>>, <<>>), UData(Obj(2), <<>>, <<>>)}
      [] route = "history" ->
           {Series(<<10, 12, 9>>, <<100, 150, 80>>), Series(<<10, 12>>, <<100>>)}

\* How the upstream call may fail: a 404 with a JSON body, a 503 with an
\* empty body, no response at all.
Errors ==
    {UError(TRUE, 404, Obj(404), "Request failed with status code 404"),
     UError(TRUE, 503, Str(""), "Request failed with status code 503"),
     UError(FALSE, 0, Undefined, "Network Error")}

----------------------------------------------------------------------------
(* Specifications *)

NoCache == [k \in {} |-> [v |-> Undefined, t |-> 0]]

\* max - 1 requests of one client at time 0, all admitted.
Burst == [i \in 1..(max - 1) |-> 0]

BurstLog == [i \in 1..(max - 1) |-> [t |-> 0, allowed |-> TRUE]]

\* The state after construction.
InitFresh ==
    /\ now = 0
    /\ requestCounts = [c \in {} |-> <<>>]
    /\ cache = NoCache
    /\ inflight = {}
    /\ last = NoResponse
    /\ arrived = 0
    /\ answered = 0
    /\ log = [c \in Clients |-> <<>>]
    /\ storedBy = [k \in {} |-> Req("", "", <<>>)]

\* The state after construction, or that state after the client has made
\* max - 1 requests at time 0 whose upstream calls failed (which leaves the
\* cache empty); arrived and answered count the requests after those.
Init ==
    /\ now = 0
    /\ \E W \in SUBSET {"c1"} :
          /\ requestCounts = [c \in W |-> Burst]
          /\ log = [c \in Clients |-> IF c \in W THEN BurstLog ELSE <<>>]
    /\ cache = NoCache
    /\ inflight = {}
    /\ last = NoResponse
    /\ arrived = 0
    /\ answered = 0
    /\ storedBy = [k \in {} |-> Req("", "", <<>>)]

\* Up to MaxReqs requests of one client to the three routes, in flight
\* together, the upstream answering each in any order and either way.
Next ==
    \/ \E rq \in Requests : arrived < MaxReqs /\ Request("c1", rq)
    \/ \E r \in inflight : \E resp \in Results(r.rq.route) : UpstreamOk(r, resp)
    \/ \E r \in inflight, err \in Errors : UpstreamFail(r, err)
    \/ \E t \in Instants : Tick(t)

Spec == Init /\ [][Next]_vars

\* The rate limiter under a long burst: up to MaxBurst requests to the list
\* route, one at a time, from the first client at any instant and, up to
\* MaxOther of them, from a second client in between at the start, while the
\* clock moves across the end of the first window.
NextRate ==
    \/ \E ip \in Clients :
          /\ arrived < MaxBurst
          /\ ip = "c2" => (now = 0 /\ Len(log[ip]) < MaxOther)
          /\ inflight = {}
          /\ Request(ip, Req("list", "", <<>>))
    \/ \E r \in inflight : UpstreamOk(r, UData(Arr(1), <<>>, <<>>))
    \/ \E t \in RateInstants : Tick(t)

SpecRate == InitFresh /\ [][NextRate]_vars

\* The upstream call of request n resolves or rejects.
Return(n) ==
    \E r \in inflight :
        /\ r.n = n
        /\ \/ \E resp \in Results(r.rq.route) : UpstreamOk(r, resp)
           \/ \E err \in Errors : UpstreamFail(r, err)

\* The requests of Spec at one instant, every upstream call of a suspended
\* handler eventually resolving or rejecting.  Whether a request is answered
\* does not depend on the clock: denied, served from the cache, fetched,
\* failed upstream and failed in the transform are all taken at time 0.
NextFair ==
    \/ \E rq \in Requests : arrived < MaxReqs /\ Request("c1", rq)
    \/ \E r \in inflight : \E resp \in Results(r.rq.route) : UpstreamOk(r, resp)
    \/ \E r \in inflight, err \in Errors : UpstreamFail(r, err)

FairSpec ==
    Init /\ [][NextFair]_vars /\ \A n \in 1..MaxReqs : WF_vars(Return(n))

\* The history route's transform on every chart of up to MaxSeries points:
\* one request, answered by the upstream with any of them.
NextTransform ==
    \/ arrived = 0 /\ Request("c1", Req("history", "a", <<>>))
    \/ \E r \in inflight : \E resp \in ChartsUpTo(MaxSeries) : UpstreamOk(r, resp)

SpecTransform == InitFresh /\ [][NextTransform]_vars

\* The cache keys of requests whose parameters contain '_': up to MaxReqs
\* requests, one at a time, each fetch succeeding.
NextKeys ==
    \/ \E rq \in KeyRequests :
          arrived < MaxReqs /\ inflight = {} /\ Request("c1", rq)
    \/ \E r \in inflight : \E resp \in Results(r.rq.route) : UpstreamOk(r, resp)

SpecKeys == InitFresh /\ [][NextKeys]_vars

----------------------------------------------------------------------------
(* Properties *)

\* The calls of ip that the rate limiter let through, by index in log[ip].
AllowedCalls(ip) == {k \in 1..Len(log[ip]) : log[ip][k].allowed}

\* The stored timestamps of ip that are less than a window old.
Pruned(ip) ==
    LET fresh(time) == now - time < windowMs
    IN SelectSeq(requestsOf(ip), fresh)

\* C1: for one client, starting from an empty window, the first 30 calls made
\* within 60 s of the first are all allowed, a 31st call within those 60 s is
\* denied, and the call after it, made more than 60 s after the first call,
\* is allowed again.
C1_BurstThenThrottle ==
    \A ip \in Clients :
        LET calls == log[ip]
            within(k) == calls[k].t - calls[1].t < windowMs
        IN /\ \A k \in 1..Len(calls) : (k <= max /\ within(k)) => calls[k].allowed
           /\ (Len(calls) > max /\ within(max + 1)) => ~calls[max + 1].allowed
           /\ ( /\ Len(calls) > max + 1
                /\ within(max + 1)
                /\ calls[max + 2].t - calls[1].t > windowMs )
              => calls[max + 2].allowed

\* 30 calls allowed, the 31st denied inside the window, the 32nd allowed
\* after it.
C1_Witness ==
    LET calls == log["c1"]
    IN /\ Len(calls) >= max + 2
       /\ \A k \in 1..max : calls[k].allowed
       /\ calls[max + 1].t - calls[1].t < windowMs
       /\ ~calls[max + 1].allowed
       /\ calls[max + 2].t - calls[1].t > windowMs
       /\ calls[max + 2].allowed

\* C2: when the rate limiter is called for a client whose pruned window holds
\* 30 or more timestamps, the request is answered 429 with the fixed message
\* as its whole body, the window becomes the pruned window with nothing
\* appended, and the handler is not entered: the cache is not written and no
\* upstream call is started.
C2_DeniedIsNotRecorded ==
    [][\A ip \in Clients :
          (log'[ip] # log[ip] /\ Len(Pruned(ip)) >= max) =>
              /\ last'.n = arrived' /\ last'.ip = ip
              /\ last'.status = 429
              /\ last'.error = "Too many requests, please try again later."
              /\ last'.body = Undefined
              /\ last'.src = "limiter"
              /\ answered' = answered + 1
              /\ requestCounts'[ip] = Pruned(ip)
              /\ inflight' = inflight
              /\ cache' = cache]_vars

\* A history request denied while another request is in flight.
C2_Witness ==
    /\ last.src = "limiter"
    /\ last.rq.route = "history"
    /\ Len(requestCounts[last.ip]) = max
    /\ inflight # {}

\* C4: a handler goes upstream only when the cache holds no unexpired entry
\* for its key, and an answer from the cache is the entry's value, whatever
\* value a fetch stored.
C4_CacheFirst ==
    /\ \A r \in inflight : ~r.hadLive
    /\ last.src \in {"upstream", "catch"} => ~last.hadLive
    /\ last.src = "cache" =>
          /\ last.hadLive
          /\ last.key \in DOMAIN cache /\ last.body = cache[last.key].v

\* C5: for N price points and as many volumes the history handler answers
\* and caches N - 1 candles (none for N = 0), the candle of point i built
\* from points i - 1 and i.
C5_Candlesticks ==
    LET p == last.fetched.prices
        v == last.fetched.total_volumes
        out == last.body.items
    IN (last.n # 0 /\ last.rq.route = "history" /\ Len(v) = Len(p)) =>
          /\ last.src = "upstream" /\ last.status = 200
          /\ last.body.tag = "array"
          /\ Len(out) = IF Len(p) = 0 THEN 0 ELSE Len(p) - 1
          /\ \A i \in 2..Len(p) :
                LET c == out[i - 1]
                IN /\ c.open = p[i - 1][2]
                   /\ c.close = p[i][2]
                   /\ c.high \in {c.open, c.close}
                   /\ c.low \in {c.open, c.close}
                   /\ c.low <= c.open /\ c.low <= c.close
                   /\ c.open <= c.high /\ c.close <= c.high
                   /\ c.volume = v[i][2]
                   /\ c.time * DayMs <= p[i][1]
                   /\ p[i][1] < (c.time + 1) * DayMs
          /\ \A j \in 2..Len(out) : out[j].open = out[j - 1].close
          /\ last.key \in DOMAIN cache /\ cache[last.key].v = last.body

\* The specification's example: (t0,10),(t1,12),(t2,9) with volumes
\* 100, 150, 80.
C5_Witness ==
    /\ last.src = "upstream"
    /\ last.fetched = Series(<<10, 12, 9>>, <<100, 150, 80>>)
    /\ last.body.items =
          <<[time |-> 1, open |-> 10, high |-> 12, low |-> 10, close |-> 12,
             volume |-> 150],
            [time |-> 2, open |-> 12, high |-> 12, low |-> 9, close |-> 9,
             volume |-> 80]>>
    /\ cache[last.key].v = last.body

\* A response sent by the catch block for a rejected upstream call.
UpstreamFailure(resp) == resp.src = "catch" /\ resp.err # TypeError

\* C6: when the upstream call of a handler fails, the response has the
\* upstream status if the failure carries one and 500 otherwise, and the
\* route's fixed message with the upstream payload or the error message as
\* details; the handler makes no further upstream call and the cache is
\* left as it was.
C6_UpstreamFailure ==
    /\ [](UpstreamFailure(last) =>
            /\ last.status = IF last.err.hasResponse THEN last.err.status ELSE 500
            /\ last.error \in {"Failed to fetch cryptocurrency data",
                               "Failed to fetch cryptocurrency details",
                               "Failed to fetch historical price data"}
            /\ last.error = errorText(last.rq.route)
            /\ last.body \in {last.err.data, Str(last.err.message)}
            /\ last.body # Undefined)
    /\ [][\A r \in inflight :
            (r \notin inflight' /\ UpstreamFailure(last')) =>
                /\ last'.n = r.n
                /\ answered' = answered + 1
                /\ inflight' = inflight \ {r}
                /\ cache' = cache]_vars

\* An upstream 404 passed on.
C6_Witness ==
    /\ UpstreamFailure(last)
    /\ last.status = 404
    /\ last.body = Obj(404)
    /\ cache = NoCache

\* C7: after any call of the rate limiter for a client, at the time of that
\* call, the client's list holds only timestamps less than 60 s old and at
\* most 30 of them; so no more than 30 calls of one client are let through
\* in any trailing 60 s, whatever the other clients do.
C7_Window ==
    \A ip \in DOMAIN requestCounts :
        LET calls == log[ip]
            called == calls[Len(calls)].t
            list == requestCounts[ip]
        IN /\ calls # <<>>
           /\ Len(list) <= max
           /\ \A i \in 1..Len(list) : list[i] > called - windowMs
           /\ \A T \in RateInstants :
                 LET counted(call) ==
                         /\ call.allowed
                         /\ call.t > T - windowMs
                         /\ call.t <= T
                 IN Len(SelectSeq(calls, counted)) <= max

\* A full window of timestamps of different times, after older ones were
\* dropped from it, the other client having called in between.
C7_Witness ==
    /\ "c1" \in DOMAIN requestCounts /\ "c2" \in DOMAIN requestCounts
    /\ Len(requestCounts["c1"]) = max
    /\ requestCounts["c1"][1] # requestCounts["c1"][max]
    /\ Cardinality(AllowedCalls("c1")) > max

\* What the upstream call of the request answered by resp returned, as the
\* handler answers it.
OwnValue(resp) ==
    IF resp.rq.route = "history"
    THEN ArrOf(candlestickData(resp.fetched.prices,
                               resp.fetched.total_volumes).data)
    ELSE resp.fetched.data

\* C8: every admitted request that misses the cache starts an upstream call
\* of its own, also while another one for the same key is in flight; when
\* one of them is processed the others stay in flight, a successful one
\* answers its own fetched value and writes it to the key, so that the key
\* holds the value of the response processed last.
C8_RacingMisses ==
    /\ [](last.src = "upstream" =>
            /\ last.body = OwnValue(last)
            /\ last.key \in DOMAIN cache
            /\ cache[last.key].v = last.body)
    /\ [][ /\ (arrived' = arrived + 1 /\ answered' = answered) =>
                 Cardinality(inflight') = Cardinality(inflight) + 1
           /\ \A r \in inflight :
                 r \notin inflight' =>
                    /\ inflight' = inflight \ {r}
                    /\ last'.n = r.n
                    /\ last'.src = "upstream" =>
                          cache'[r.key] = [v |-> OwnValue(last'), t |-> now]
         ]_vars

\* The last of several racing requests has overwritten what another one
\* stored.
C8_Witness ==
    /\ last.src = "upstream"
    /\ ~last.hadLive
    /\ last.prev # Undefined
    /\ last.prev # last.body
    /\ inflight = {}

\* Two requests have the same target: endpoint, id and, on the history
\* route, days.
SameTarget(a, b) ==
    /\ a.route = b.route
    /\ a.id = b.id
    /\ a.route = "history" => daysOf(a.query) = daysOf(b.query)

\* C9: a request answered from the cache gets an entry that was fetched for
\* its own endpoint, id and days.
C9_KeysSeparate ==
    last.src = "cache" => SameTarget(storedBy[last.key], last.rq)

\* The three bodies a request can get.
ResponseShape(resp) ==
    \/ /\ resp.src = "limiter" /\ resp.status = 429
       /\ resp.error = message /\ resp.body = Undefined
    \/ /\ resp.src \in {"cache", "upstream"} /\ resp.status = 200
       /\ resp.error = "" /\ resp.body # Undefined
    \/ /\ resp.src = "catch" /\ resp.error = errorText(resp.rq.route)
       /\ resp.body # Undefined

\* C10: every request gets exactly one response, of one of the three shapes:
\* at once, or when its upstream call returns, failures of the upstream and
\* of the transform included; a request's response leaves the other
\* requests in flight; and every request in flight is eventually answered.
C10_ExactlyOneResponse ==
    /\ [](/\ answered = arrived - Cardinality(inflight)
          /\ last.n # 0 => ResponseShape(last))
    /\ [][ /\ answered' \in {answered, answered + 1}
           /\ arrived' = arrived + 1 =>
                 \/ last'.n = arrived' /\ answered' = answered + 1
                 \/ /\ \E r \in inflight' \ inflight : r.n = arrived'
                    /\ answered' = answered /\ last' = last
           /\ \A r \in inflight :
                 r \notin inflight' =>
                    /\ last'.n = r.n
                    /\ answered' = answered + 1
                    /\ inflight' = inflight \ {r}
         ]_vars
    /\ \A n \in 1..MaxReqs : (\E r \in inflight : r.n = n) ~> (last.n = n)

\* The transform threw on a short volume series and the request was
\* answered 500, every request answered.
C10_Witness ==
    /\ last.src = "catch" /\ last.err = TypeError /\ last.status = 500
    /\ arrived = MaxReqs
    /\ answered = arrived
    /\ inflight = {}

====
